---- MODULE Spec2Model ----
(***************************************************************************)
(* A model of src/Kolmogorov.py: the pseudo-spectral integrator            *)
(* navier_stokes_2d and the Gaussian random field sampler GaussianRF.      *)
(*                                                                         *)
(* Times are integers (a common tick of T and delta_t).  Field values are  *)
(* abstracted to three classes: "Z" (exactly zero everywhere), "V" (finite,*)
(* arbitrary) and "NaN" (some entry is not finite); a field also carries   *)
(* upd, the number of Crank-Nicolson updates its vorticity has undergone,  *)
(* and batch, the size of its leading dimension.  4*pi^2 is truncated to   *)
(* an integer and sqrt(2) is the unit of the sampler's scale table, whose  *)
(* entries are exact rationals <<numerator, denominator>>.                 *)
(***************************************************************************)
EXTENDS Integers, Sequences, FiniteSets

\* ------------------------------------------------------------ bounds
MaxN == 4
MaxT == 4
MaxDt == 3
MaxR == 3
MaxVisc == 2
MaxBatch == 3
MaxDim == 4
MaxSize == 4
MaxSamples == 2
MaxDraw == 2

\* 4*(math.pi**2), truncated to an integer
FourPiSq == 39

VARIABLES
    pc,            \* "entry", "loop", "done" (returned), "failed" (raised)
    err,           \* the exception raised, "none" otherwise
    w0, f,         \* inputs: [batch, cls]; f.batch = 0: f has no batch dimension
    N,             \* grid size, w0.size()[-1]
    visc, T, delta_t, record_steps,
    steps, record_time,
    k_x, k_y, lap, dealias,
    w_h, f_h,
    sol, sol_t, sol_vel_x, sol_vel_y,
    c, t, j,
    q, v,
    wavenumbers,   \* the vector torch.cat builds, in either component
    gpc,           \* GaussianRF: "new", "constructed", "failed"
    gerr,          \* the exception the last GaussianRF call raised, "none" otherwise
    dim, size, alpha, tau, sigma,   \* sigma = 0: sigma is None
    sqrt_eig,      \* self.sqrt_eig: [built, ext, a]
    self_size,     \* self.size
    nsamp,         \* calls of sample() so far
    coeff_dc,      \* per realization of the last sample(): coeff at the zero bin
    field_sum      \* per realization of the last sample(): sum of the field over the grid

nsvars == <<pc, err, w0, f, N, visc, T, delta_t, record_steps, steps,
            record_time, k_x, k_y, lap, dealias, w_h, f_h, sol, sol_t,
            sol_vel_x, sol_vel_y, c, t, j, q, v>>

grfvars == <<gpc, gerr, dim, size, alpha, tau, sigma, sqrt_eig, self_size,
             nsamp, coeff_dc, field_sum>>

vars == <<nsvars, wavenumbers, grfvars>>

\* ------------------------------------------------------------ arithmetic
Cls == {"Z", "V", "NaN"}

\* math.floor(N/2.0), size//2
FloorHalf(n) == n \div 2

\* math.ceil(T/delta_t)
CeilDiv(a, b) == (a + b - 1) \div b

\* math.floor(steps/record_steps)
FloorDiv(a, b) == a \div b

\* torch.arange(start, end, step=1)
Arange(start, end) == [i \in 1..(end - start) |-> start + i - 1]

\* torch.cat((arange(0, k_max), arange(-k_max, 0)), 0)
WavenumberVectorMut(k_max) == Arange(0, k_max + 1) \o Arange(-k_max, 0)
WavenumberVector(k_max) == Arange(0, k_max) \o Arange(-k_max, 0)

\* scalar * field entry
AbsScale(s, a) == IF a = "NaN" THEN "NaN"
                  ELSE IF s = 0 \/ a = "Z" THEN "Z" ELSE "V"

\* field entry / scalar: 0/0 and x/0 are not finite
AbsDiv(a, l) == IF a = "NaN" \/ l = 0 THEN "NaN" ELSE a

AbsAdd(a, b) == IF a = "NaN" \/ b = "NaN" THEN "NaN"
                ELSE IF a = "Z" /\ b = "Z" THEN "Z" ELSE "V"

AbsMul(a, b) == IF a = "NaN" \/ b = "NaN" THEN "NaN"
                ELSE IF a = "Z" \/ b = "Z" THEN "Z" ELSE "V"

\* broadcasting of one dimension of two shapes; -1: they do not broadcast
BroadcastDim(a, b) == IF a = b THEN a
                      ELSE IF a = 1 THEN b
                      ELSE IF b = 1 THEN a ELSE -1

Min(a, b) == IF a <= b THEN a ELSE b

Abs(a) == IF a < 0 THEN -a ELSE a

\* ------------------------------------------------------------ fields
\* frequency bins of a truncated spectrum: N rows, k_max + 1 columns
Modes(n) == (0..(n - 1)) \X (0..FloorHalf(n))

\* torch.fft.rfft2 of a physical field: every bin is a combination of all entries
rfft2(x, n) == [batch |-> x.batch, upd |-> x.upd, m |-> [b \in Modes(n) |-> x.cls]]

\* torch.fft.irfft2 of a spectrum: every entry is a combination of all bins
irfft2(x_h) ==
    [batch |-> x_h.batch, upd |-> x_h.upd,
     cls |-> IF \E b \in DOMAIN x_h.m : x_h.m[b] = "NaN" THEN "NaN"
             ELSE IF \A b \in DOMAIN x_h.m : x_h.m[b] = "Z" THEN "Z" ELSE "V"]

\* torch.zeros(...)
Zeros(b) == [batch |-> b, upd |-> -1, cls |-> "Z"]

\* a value assigned into a buffer slot of leading dimension b
Assignable(x, b) == x.batch = b \/ x.batch = 1

\* ------------------------------------------------------------ integer matrices
\* the positions <<row, column>> of a matrix of r rows and cc columns
Idx(r, cc) == (0..(r - 1)) \X (0..(cc - 1))

NoMatrix == [rows |-> 0, cols |-> 0, a |-> <<>>]

\* vec.repeat(n, 1): n rows, each a copy of vec
Repeat(vec, n) ==
    [rows |-> n, cols |-> Len(vec), a |-> [b \in Idx(n, Len(vec)) |-> vec[b[2] + 1]]]

\* M.transpose(0, 1)
Transpose(M) ==
    [rows |-> M.cols, cols |-> M.rows,
     a |-> [b \in Idx(M.cols, M.rows) |-> M.a[<<b[2], b[1]>>]]]

\* M[..., :n]
Truncate(M, n) ==
    [rows |-> M.rows, cols |-> Min(M.cols, n),
     a |-> [b \in Idx(M.rows, Min(M.cols, n)) |-> M.a[b]]]

\* the entry of M that broadcasting pairs with position <<r, cc>>
BAt(M, b) == M.a[<<IF M.rows = 1 THEN 0 ELSE b[1], IF M.cols = 1 THEN 0 ELSE b[2]>>]

Broadcasts(A, B) == BroadcastDim(A.rows, B.rows) # -1 /\ BroadcastDim(A.cols, B.cols) # -1

\* 4*(math.pi**2)*(k_x**2 + k_y**2)
Laplacian(kx, ky) ==
    LET r == BroadcastDim(kx.rows, ky.rows)
        cc == BroadcastDim(kx.cols, ky.cols)
    IN [rows |-> r, cols |-> cc,
        a |-> [b \in Idx(r, cc) |->
                 FourPiSq * (BAt(kx, b) * BAt(kx, b) + BAt(ky, b) * BAt(ky, b))]]

\* lap[0, 0] = 1.0
PinZeroModeMut(L) == L
PinZeroMode(L) == [L EXCEPT !.a[<<0, 0>>] = 1]

\* logical_and(abs(k_y) <= (2.0/3.0)*k_max, abs(k_x) <= (2.0/3.0)*k_max).float()
Dealias(kx, ky, k_max) ==
    LET r == BroadcastDim(kx.rows, ky.rows)
        cc == BroadcastDim(kx.cols, ky.cols)
    IN [rows |-> r, cols |-> cc,
        a |-> [b \in Idx(r, cc) |->
                 IF 3 * Abs(BAt(ky, b)) <= 2 * k_max /\ 3 * Abs(BAt(kx, b)) <= 2 * k_max
                 THEN 1 ELSE 0]]

\* ------------------------------------------------------------ one time step
\* psi_h = w_h / lap
StreamFunction(wh, L) == [wh EXCEPT !.m = [b \in DOMAIN wh.m |-> AbsDiv(wh.m[b], L.a[b])]]

\* irfft2(2. * math.pi * k * 1j * x_h)
Derivative(x_h, k) == irfft2([x_h EXCEPT !.m = [b \in DOMAIN x_h.m |-> AbsScale(k.a[b], x_h.m[b])]])

\* dealias * rfft2(q*w_x + v*w_y)
NonLinear(qq, vv, w_x, w_y, mask, n) ==
    LET adv == [batch |-> qq.batch, upd |-> qq.upd,
                cls |-> AbsAdd(AbsMul(qq.cls, w_x.cls), AbsMul(vv.cls, w_y.cls))]
        F == rfft2(adv, n)
    IN [F EXCEPT !.m = [b \in DOMAIN F.m |-> AbsScale(mask.a[b], F.m[b])]]

\* (-delta_t*F_h + delta_t*f_h + (1.0 - 0.5*delta_t*visc*lap)*w_h)/(1.0 + 0.5*delta_t*visc*lap)
\* (numerator and denominator coefficients doubled to stay in the integers)
CrankNicolson(wh, F, fh, L, dt, nu) ==
    [batch |-> BroadcastDim(wh.batch, fh.batch),
     upd |-> wh.upd + 1,
     m |-> [b \in DOMAIN wh.m |->
              AbsDiv(AbsAdd(AbsAdd(AbsScale(-dt, F.m[b]), AbsScale(dt, fh.m[b])),
                            AbsScale(2 - dt * nu * L.a[b], wh.m[b])),
                     2 + dt * nu * L.a[b])]]

\* t += delta_t
AdvanceTimeMut(tt, dt) == tt + dt + 1
AdvanceTime(tt, dt) == tt + dt

\* (j+1) % record_time == 0
RecordDueMut(jj, rt) == jj % rt = 0
RecordDue(jj, rt) == (jj + 1) % rt = 0

\* ------------------------------------------------------------ navier_stokes_2d
IdleNS ==
    /\ pc = "idle" /\ err = "none"
    /\ N = 0 /\ w0 = Zeros(0) /\ f = Zeros(0)
    /\ visc = 0 /\ T = 0 /\ delta_t = 0 /\ record_steps = 0
    /\ steps = 0 /\ record_time = 0
    /\ k_x = NoMatrix /\ k_y = NoMatrix /\ lap = NoMatrix /\ dealias = NoMatrix
    /\ w_h = [batch |-> 0, upd |-> 0, m |-> <<>>]
    /\ f_h = [batch |-> 0, upd |-> 0, m |-> <<>>]
    /\ sol = <<>> /\ sol_t = <<>> /\ sol_vel_x = <<>> /\ sol_vel_y = <<>>
    /\ c = 0 /\ t = 0 /\ j = 0
    /\ q = Zeros(0) /\ v = Zeros(0)

InitNS ==
    /\ pc = "entry" /\ err = "none"
    /\ N \in 1..MaxN
    /\ w0 \in [batch : 1..MaxBatch, cls : {"Z", "V"}, upd : {0}]
    /\ f \in [batch : 0..MaxBatch, cls : {"Z", "V"}, upd : {0}]
    /\ visc \in 1..MaxVisc
    /\ T \in 1..MaxT
    /\ delta_t \in 1..MaxDt
    /\ record_steps \in 1..MaxR
    /\ steps = 0 /\ record_time = 0
    /\ k_x = NoMatrix /\ k_y = NoMatrix /\ lap = NoMatrix /\ dealias = NoMatrix
    /\ w_h = [batch |-> 0, upd |-> 0, m |-> <<>>]
    /\ f_h = [batch |-> 0, upd |-> 0, m |-> <<>>]
    /\ sol = <<>> /\ sol_t = <<>> /\ sol_vel_x = <<>> /\ sol_vel_y = <<>>
    /\ c = 0 /\ t = 0 /\ j = 0
    /\ q = Zeros(0) /\ v = Zeros(0)

\* lines 18-67: everything before the loop
Setup ==
    /\ pc = "entry"
    /\ LET k_max == FloorHalf(N)
           wh == rfft2(w0, N)
           fh0 == rfft2(f, N)
           \* len(f_h.size()) < len(w_h.size()): torch.unsqueeze(f_h, 0)
           fh == IF f.batch = 0 THEN [fh0 EXCEPT !.batch = 1] ELSE fh0
           ky0 == Repeat(WavenumberVector(k_max), N)
           kx0 == Transpose(ky0)
           kx == Truncate(kx0, k_max + 1)
           ky == Truncate(ky0, k_max + 1)
           L == Laplacian(kx, ky)
       IN /\ steps' = CeilDiv(T, delta_t)
          /\ wavenumbers' = WavenumberVector(k_max)
          /\ w_h' = wh
          /\ f_h' = fh
          /\ record_time' = FloorDiv(CeilDiv(T, delta_t), record_steps)
          /\ IF ~Broadcasts(kx, ky)
             THEN /\ pc' = "failed" /\ err' = "RuntimeError"
                  /\ UNCHANGED <<k_x, k_y, lap, dealias, sol, sol_t, sol_vel_x, sol_vel_y>>
             ELSE IF <<0, 0>> \notin DOMAIN L.a
             THEN /\ pc' = "failed" /\ err' = "IndexError"
                  /\ UNCHANGED <<k_x, k_y, lap, dealias, sol, sol_t, sol_vel_x, sol_vel_y>>
             ELSE /\ pc' = "loop" /\ err' = err
                  /\ k_x' = kx /\ k_y' = ky
                  /\ lap' = PinZeroMode(L)
                  /\ dealias' = Dealias(kx, ky, k_max)
                  /\ sol' = [i \in 1..record_steps |-> Zeros(w0.batch)]
                  /\ sol_t' = [i \in 1..record_steps |-> 0]
                  /\ sol_vel_x' = [i \in 1..record_steps |-> Zeros(w0.batch)]
                  /\ sol_vel_y' = [i \in 1..record_steps |-> Zeros(w0.batch)]
    /\ UNCHANGED <<w0, f, N, visc, T, delta_t, record_steps, c, t, j, q, v>>
    /\ UNCHANGED grfvars

\* lines 68-113: one iteration of the loop
Iterate ==
    /\ pc = "loop" /\ j < steps
    /\ LET psi_h == StreamFunction(w_h, lap)
           q_ == Derivative(psi_h, k_y)
           v_ == Derivative(psi_h, k_x)
           w_x == Derivative(w_h, k_x)
           w_y == Derivative(w_h, k_y)
           F_h == NonLinear(q_, v_, w_x, w_y, dealias, N)
           w_new == CrankNicolson(w_h, F_h, f_h, lap, delta_t, visc)
           w == irfft2(w_new)
       IN /\ q' = q_ /\ v' = v_
          /\ IF w_new.batch = -1
             THEN \* line 95: the shapes of f_h and w_h do not broadcast
                  /\ pc' = "failed" /\ err' = "RuntimeError"
                  /\ UNCHANGED <<w_h, t, j, c, sol, sol_t, sol_vel_x, sol_vel_y>>
             ELSE /\ w_h' = w_new
                  /\ t' = AdvanceTime(t, delta_t)
                  /\ IF record_time = 0
                     THEN \* line 101: modulo by zero
                          /\ pc' = "failed" /\ err' = "ZeroDivisionError"
                          /\ UNCHANGED <<j, c, sol, sol_t, sol_vel_x, sol_vel_y>>
                     ELSE IF ~RecordDue(j, record_time)
                     THEN /\ pc' = pc /\ err' = err /\ j' = j + 1
                          /\ UNCHANGED <<c, sol, sol_t, sol_vel_x, sol_vel_y>>
                     ELSE IF c >= record_steps
                     THEN \* line 107: slot c is past the end of the buffer
                          /\ pc' = "failed" /\ err' = "IndexError"
                          /\ UNCHANGED <<j, c, sol, sol_t, sol_vel_x, sol_vel_y>>
                     ELSE IF ~Assignable(w, w0.batch) \/ ~Assignable(q_, w0.batch)
                     THEN \* line 107: w does not fit the slot
                          /\ pc' = "failed" /\ err' = "RuntimeError"
                          /\ UNCHANGED <<j, c, sol, sol_t, sol_vel_x, sol_vel_y>>
                     ELSE /\ pc' = pc /\ err' = err /\ j' = j + 1
                          /\ sol' = [sol EXCEPT ![c + 1] = w]
                          /\ sol_t' = [sol_t EXCEPT ![c + 1] = AdvanceTime(t, delta_t)]
                          /\ sol_vel_x' = [sol_vel_x EXCEPT ![c + 1] = q_]
                          /\ sol_vel_y' = [sol_vel_y EXCEPT ![c + 1] = v_]
                          /\ c' = c + 1
    /\ UNCHANGED <<w0, f, N, visc, T, delta_t, record_steps, steps, record_time,
                   k_x, k_y, lap, dealias, f_h>>
    /\ UNCHANGED <<wavenumbers, grfvars>>

\* line 115: return sol, sol_t, sol_vel_x, sol_vel_y
Return ==
    /\ pc = "loop" /\ j = steps
    /\ pc' = "done"
    /\ UNCHANGED <<err, w0, f, N, visc, T, delta_t, record_steps, steps, record_time,
                   k_x, k_y, lap, dealias, w_h, f_h, sol, sol_t, sol_vel_x, sol_vel_y,
                   c, t, j, q, v>>
    /\ UNCHANGED <<wavenumbers, grfvars>>

\* ------------------------------------------------------------ rationals
RECURSIVE Pow(_, _)
Pow(b, e) == IF e = 0 THEN 1 ELSE b * Pow(b, e - 1)

RatZero == <<0, 1>>

RatLess(a, b) == a[1] * b[2] < b[1] * a[2]

RatScale(a, s) == IF a[1] * s = 0 THEN RatZero ELSE <<a[1] * s, a[2]>>

RatAdd(a, b) == IF a[1] = 0 THEN b
                ELSE IF b[1] = 0 THEN a
                ELSE <<a[1] * b[2] + b[1] * a[2], a[2] * b[2]>>

\* ------------------------------------------------------------ GaussianRF
Alphas == {2, 4}
Taus == {1, 4}
Sigmas == {0, 1}

\* tau**0.5, for the perfect squares of Taus
SqrtTau(x) == CHOOSE r \in 0..x : r * r = x

\* tau**(0.5*(2*alpha - self.dim))
DefaultSigma(tt, al, d) == Pow(SqrtTau(tt), 2 * al - d)

\* the index tuples of a table of d axes of extent ext
Bins(d, ext) == [1..d -> 0..(ext - 1)]

ZeroBin(d) == [i \in 1..d |-> 0]

\* k**2, k_x**2 + k_y**2, k_x**2 + k_y**2 + k_z**2 at an index tuple
KSquared(b, kv) ==
    IF DOMAIN b = 1..1 THEN kv[b[1] + 1] * kv[b[1] + 1]
    ELSE IF DOMAIN b = 1..2
    THEN kv[b[1] + 1] * kv[b[1] + 1] + kv[b[2] + 1] * kv[b[2] + 1]
    ELSE kv[b[2] + 1] * kv[b[2] + 1] + kv[b[3] + 1] * kv[b[3] + 1]
         + kv[b[1] + 1] * kv[b[1] + 1]

\* (size**d)*math.sqrt(2.0)*sigma*((4*(math.pi**2)*ksq + tau**2)**(-alpha/2.0)),
\* in units of sqrt(2)
SqrtEigAtMut(sz, d, sg, tt, al, ksq) ==
    <<Pow(sz, d) * sg * Pow(FourPiSq * ksq + tt * tt, al \div 2), 1>>
SqrtEigAt(sz, d, sg, tt, al, ksq) ==
    <<Pow(sz, d) * sg, Pow(FourPiSq * ksq + tt * tt, al \div 2)>>

\* self.sqrt_eig[0] = 0.0, self.sqrt_eig[0, 0] = 0.0, self.sqrt_eig[0, 0, 0] = 0.0
ZeroDCMut(tbl, d) == tbl
ZeroDC(tbl, d) == [tbl EXCEPT ![ZeroBin(d)] = RatZero]

NoTable == [built |-> FALSE, ext |-> 0, a |-> <<>>]

IdleGRF ==
    /\ gpc = "idle" /\ gerr = "none"
    /\ dim = 0 /\ size = 0 /\ alpha = 0 /\ tau = 0 /\ sigma = 0
    /\ sqrt_eig = NoTable /\ self_size = <<>>
    /\ nsamp = 0 /\ coeff_dc = <<>> /\ field_sum = <<>>

InitGRF ==
    /\ gpc = "new" /\ gerr = "none"
    /\ dim \in 0..MaxDim
    /\ size \in 1..MaxSize
    /\ alpha \in Alphas
    /\ tau \in Taus
    /\ sigma \in Sigmas
    /\ sqrt_eig = NoTable /\ self_size = <<>>
    /\ nsamp = 0 /\ coeff_dc = <<>> /\ field_sum = <<>>

\* lines 119-165: GaussianRF.__init__
Construct ==
    /\ gpc = "new"
    /\ LET k_max == FloorHalf(size)
           kv == WavenumberVector(k_max)
           sg == IF sigma = 0 THEN DefaultSigma(tau, alpha, dim) ELSE sigma
           \* extent of each axis of k**2 (+ ...): the vector's length for one
           \* axis, the broadcast of the repeated and transposed shapes otherwise
           ext == IF dim = 1 THEN Len(kv) ELSE BroadcastDim(size, Len(kv))
           tbl == [b \in Bins(dim, ext) |-> SqrtEigAt(size, dim, sg, tau, alpha, KSquared(b, kv))]
       IN IF dim \in {1, 2, 3}
          THEN /\ wavenumbers' = kv
               /\ IF ext = -1
                  THEN /\ gpc' = "failed" /\ gerr' = "RuntimeError"
                       /\ UNCHANGED <<sqrt_eig, self_size>>
                  ELSE IF ZeroBin(dim) \notin Bins(dim, ext)
                  THEN /\ gpc' = "failed" /\ gerr' = "IndexError"
                       /\ UNCHANGED <<sqrt_eig, self_size>>
                  ELSE /\ gpc' = "constructed" /\ gerr' = gerr
                       /\ sqrt_eig' = [built |-> TRUE, ext |-> ext, a |-> ZeroDC(tbl, dim)]
                       /\ self_size' = [i \in 1..dim |-> size]
          ELSE \* no branch is taken: self.sqrt_eig is never assigned
               /\ gpc' = "constructed" /\ gerr' = gerr
               /\ self_size' = [i \in 1..dim |-> size]
               /\ UNCHANGED <<wavenumbers, sqrt_eig>>
    /\ UNCHANGED <<dim, size, alpha, tau, sigma, nsamp, coeff_dc, field_sum>>
    /\ UNCHANGED nsvars

RECURSIVE TupleSum(_, _)
\* b[1] + ... + b[d]
TupleSum(b, d) == IF d = 0 THEN 0 ELSE TupleSum(b, d - 1) + b[d]

\* torch.randn(..., dtype=torch.cfloat): draw p, realization n, at an index tuple
Draw(p, n, b) ==
    LET lin == TupleSum(b, Cardinality(DOMAIN b))
    IN <<p + n * lin, lin - p>>

\* z * exp(2*pi*i*e/sz), for sz dividing 4
Rot(z, e, sz) ==
    LET quarter == ((e % sz) * (4 \div sz)) % 4
    IN IF quarter = 0 THEN z
       ELSE IF quarter = 1 THEN <<-z[2], z[1]>>
       ELSE IF quarter = 2 THEN <<-z[1], -z[2]>>
       ELSE <<z[2], -z[1]>>

\* the index tuple of linear index i
Unravel(i, d, sz) == [a \in 1..d |-> (i \div Pow(sz, a - 1)) % sz]

CMul(y, z) == <<y[1] * z[1] - y[2] * z[2], y[1] * z[2] + y[2] * z[1]>>

CAdd(y, z) == <<y[1] + z[1], y[2] + z[2]>>

RECURSIVE AxisSumTo(_, _, _)
\* sum over the points x < n of one axis of exp(2*pi*i*k*x/sz)
AxisSumTo(k, sz, n) == IF n = 0 THEN <<0, 0>>
                       ELSE CAdd(AxisSumTo(k, sz, n - 1), Rot(<<1, 0>>, k * (n - 1), sz))

\* sum over the points x of one axis of exp(2*pi*i*k*x/sz)
AxisSum(k, sz) == AxisSumTo(k, sz, sz)

RECURSIVE GridSum(_, _, _)
\* sum over the points x of the grid of exp(2*pi*i*b.x/sz), one axis after the other
GridSum(b, d, sz) == IF d = 0 THEN <<1, 0>>
                     ELSE CMul(GridSum(b, d - 1, sz), AxisSum(b[d], sz))

RECURSIVE BinSum(_, _, _, _, _, _, _)
\* the terms of the bins of linear index lo .. hi - 1, summed by halves
BinSum(lo, hi, tbl, p, n, d, sz) ==
    IF hi <= lo THEN RatZero
    ELSE IF hi = lo + 1
    THEN LET b == Unravel(lo, d, sz)
         IN RatScale(tbl[b], CMul(Draw(p, n, b), GridSum(b, d, sz))[1])
    ELSE LET mid == (lo + hi) \div 2
         IN RatAdd(BinSum(lo, mid, tbl, p, n, d, sz), BinSum(mid, hi, tbl, p, n, d, sz))

\* sum over the grid of real(ifftn(sqrt_eig * z)), times the number of grid points:
\* the sum over the bins b of sqrt_eig[b] * Re(z[b] * sum over x of exp(2*pi*i*b.x/sz))
FieldSum(tbl, p, n, d, sz) == BinSum(0, Pow(sz, d), tbl, p, n, d, sz)

\* lines 167-181: GaussianRF.sample
Sample ==
    /\ gpc = "constructed" /\ nsamp < MaxSamples
    /\ nsamp' = nsamp + 1
    /\ \E Nb \in 1..MaxBatch, p \in 1..MaxDraw :
         IF ~sqrt_eig.built
         THEN \* line 171: self.sqrt_eig does not exist
              /\ gerr' = "AttributeError"
              /\ UNCHANGED <<coeff_dc, field_sum>>
         ELSE IF BroadcastDim(sqrt_eig.ext, size) = -1
         THEN \* line 171: the table does not broadcast against the draws
              /\ gerr' = "RuntimeError"
              /\ UNCHANGED <<coeff_dc, field_sum>>
         ELSE /\ gerr' = "none"
              /\ coeff_dc' = [n \in 1..Nb |->
                    LET z == Draw(p, n, ZeroBin(dim))
                        e == sqrt_eig.a[ZeroBin(dim)]
                    IN <<e[1] * z[1], e[1] * z[2], e[2]>>]
              /\ field_sum' = [n \in 1..Nb |-> FieldSum(sqrt_eig.a, p, n, dim, size)]
    /\ UNCHANGED <<gpc, dim, size, alpha, tau, sigma, sqrt_eig, self_size, wavenumbers>>
    /\ UNCHANGED nsvars

\* ------------------------------------------------------------ specification
Init ==
    /\ wavenumbers = <<>>
    /\ \/ InitNS /\ IdleGRF
       \/ IdleNS /\ InitGRF

Next == Setup \/ Iterate \/ Return \/ Construct \/ Sample

Spec == Init /\ [][Next]_vars

\* ------------------------------------------------------------ claims
\* the grid size the integrator is written for (line 17)
ValidGrid == N % 2 = 0

\* 1 <= R <= steps
ValidSchedule == 1 <= record_steps /\ record_steps <= CeilDiv(T, delta_t)

\* f has no batch dimension, or the shape of w0
ShapesAgree == f.batch = 0 \/ f.batch = w0.batch

Started == pc \in {"loop", "done", "failed"}

Ended == pc \in {"done", "failed"}

\* C1: for every call with 1 <= R <= steps (on a supported grid, with a forcing
\* of a shape the specification accepts) the run completes, the write cursor c
\* never addresses a slot beyond R - 1, and c equals R when the loop ends.
C1_ExactlyRSnapshots ==
    (Started /\ ValidGrid /\ ShapesAgree /\ ValidSchedule)
        => /\ pc # "failed"
           /\ c <= record_steps
           /\ (pc = "done" => c = record_steps)

\* C2 as stated: every time stamp stored in sol_t is <= T.
C2_StampsWithinT ==
    Started => \A i \in DOMAIN sol_t : sol_t[i] <= T

\* C2 as amended: every time stamp stored in sol_t is <= steps*delta_t, which is
\* less than T + delta_t, and is <= T when T is a multiple of delta_t.
C2_StampsWithinSteps ==
    Started => /\ steps * delta_t < T + delta_t
               /\ \A i \in DOMAIN sol_t :
                    /\ sol_t[i] <= steps * delta_t
                    /\ (T % delta_t = 0 => sol_t[i] <= T)

\* a completed run whose last stamp is past T, T being no multiple of delta_t
C2_Witness ==
    /\ pc = "done" /\ T % delta_t # 0 /\ c = record_steps
    /\ sol_t[record_steps] = steps * delta_t
    /\ sol_t[record_steps] > T

\* C3: a call with R > steps fails with InvalidRecordingSchedule before any time
\* step is executed.
C3_FailsAtEntry ==
    (Ended /\ ValidGrid /\ ShapesAgree /\ record_steps > CeilDiv(T, delta_t))
        => /\ pc = "failed"
           /\ err = "InvalidRecordingSchedule"
           /\ w_h.upd = 0 /\ t = 0

\* C4: constructing a GaussianRF with d outside {1,2,3} fails with
\* UnsupportedDimension and produces no sampler, so sample() never runs on a
\* sampler without a scale table.
C4_UnsupportedDimension ==
    (gpc \in {"constructed", "failed"} /\ dim \notin {1, 2, 3})
        => /\ gpc = "failed"
           /\ gerr = "UnsupportedDimension"
           /\ nsamp = 0

\* C5: a forcing with a batch dimension whose shape is not that of w0 fails with
\* ShapeMismatch at entry, before any time step is executed.
C5_ShapeMismatchAtEntry ==
    (Ended /\ ValidGrid /\ ValidSchedule /\ ~ShapesAgree)
        => /\ pc = "failed"
           /\ err = "ShapeMismatch"
           /\ w_h.upd = 0 /\ t = 0

\* C6: for a sampler constructed with d in {1,2,3}, the scale table is 0 at the
\* zero-wavenumber bin after construction and after any number of sample()
\* calls, and every sampled realization has DC coefficient 0 and sum 0 over
\* the grid.
C6_ZeroMean ==
    (gpc = "constructed" /\ dim \in {1, 2, 3})
        => /\ sqrt_eig.built
           /\ sqrt_eig.a[ZeroBin(dim)] = RatZero
           /\ \A n \in DOMAIN coeff_dc : coeff_dc[n][1] = 0 /\ coeff_dc[n][2] = 0
           /\ \A n \in DOMAIN field_sum : field_sum[n][1] = 0

\* two completed sample() calls on a three-dimensional sampler whose table has
\* non-zero entries
C6_Witness ==
    /\ gpc = "constructed" /\ dim = 3 /\ size = 4
    /\ nsamp = 2 /\ gerr = "none"
    /\ Len(coeff_dc) >= 2 /\ Len(field_sum) >= 2
    /\ \E b \in DOMAIN sqrt_eig.a : sqrt_eig.a[b][1] > 0

\* C7 as stated: sqrt_eig is non-negative and strictly decreasing in |k| over
\* all bins, the zero-wavenumber bin included.
C7_DecreasingEverywhere ==
    (gpc = "constructed" /\ dim \in {1, 2, 3} /\ alpha > 0)
        => \A b1 \in DOMAIN sqrt_eig.a, b2 \in DOMAIN sqrt_eig.a :
              /\ sqrt_eig.a[b1][1] >= 0 /\ sqrt_eig.a[b1][2] > 0
              /\ KSquared(b1, wavenumbers) < KSquared(b2, wavenumbers)
                    => RatLess(sqrt_eig.a[b2], sqrt_eig.a[b1])

\* C7 as amended: sqrt_eig is non-negative, 0 at the zero-wavenumber bin,
\* positive at every other bin, and strictly decreasing in |k| over the bins
\* with |k| > 0.
C7_DecreasingOffZeroBin ==
    (gpc = "constructed" /\ dim \in {1, 2, 3} /\ alpha > 0)
        => \A b1 \in DOMAIN sqrt_eig.a, b2 \in DOMAIN sqrt_eig.a :
              /\ sqrt_eig.a[b1][1] >= 0 /\ sqrt_eig.a[b1][2] > 0
              /\ (sqrt_eig.a[b1][1] = 0 <=> b1 = ZeroBin(dim))
              /\ (0 < KSquared(b1, wavenumbers)
                  /\ KSquared(b1, wavenumbers) < KSquared(b2, wavenumbers))
                    => RatLess(sqrt_eig.a[b2], sqrt_eig.a[b1])

\* a table with bins of three different |k| > 0
C7_Witness ==
    /\ gpc = "constructed" /\ dim = 2 /\ size = 4
    /\ \E b1 \in DOMAIN sqrt_eig.a, b2 \in DOMAIN sqrt_eig.a, b3 \in DOMAIN sqrt_eig.a :
          /\ 0 < KSquared(b1, wavenumbers)
          /\ KSquared(b1, wavenumbers) < KSquared(b2, wavenumbers)
          /\ KSquared(b2, wavenumbers) < KSquared(b3, wavenumbers)
          /\ RatLess(sqrt_eig.a[b3], sqrt_eig.a[b2])
          /\ RatLess(sqrt_eig.a[ZeroBin(dim)], sqrt_eig.a[b3])

\* C8: with w0 and f all zero and 1 <= R <= steps, the zero-mode entry of lap is
\* 1 and no entry of lap is 0, w_h is zero after every time step, and every
\* recorded vorticity and velocity snapshot is zero.
C8_ZeroStaysZero ==
    (Started /\ w0.cls = "Z" /\ f.cls = "Z" /\ ValidSchedule)
        => /\ pc \in {"loop", "done"}
                => lap.a[<<0, 0>>] = 1 /\ \A b \in DOMAIN lap.a : lap.a[b] # 0
           /\ \A b \in DOMAIN w_h.m : w_h.m[b] = "Z"
           /\ q.cls = "Z" /\ v.cls = "Z"
           /\ \A i \in DOMAIN sol :
                sol[i].cls = "Z" /\ sol_vel_x[i].cls = "Z" /\ sol_vel_y[i].cls = "Z"

\* a completed run of several steps on zero fields, every slot written
C8_Witness ==
    /\ pc = "done" /\ w0.cls = "Z" /\ f.cls = "Z"
    /\ steps >= 3 /\ w_h.upd = steps
    /\ record_steps >= 2 /\ c = record_steps
    /\ \A i \in DOMAIN sol : sol[i].upd >= 1 /\ sol[i].cls = "Z"

\* the buffers of recorded snapshots
Buffers == <<sol, sol_t, sol_vel_x, sol_vel_y>>

\* C9: iteration j reaches a recording event exactly when (j+1) is a multiple of
\* the recording interval; the event writes slot c and nothing else, with the
\* vorticity after j+1 updates, the time (j+1)*delta_t and the velocities derived
\* from the vorticity after j updates, then advances c by one; time stamps
\* increase strictly from slot to slot.  (An event that finds no free slot, or
\* a vorticity that does not fit the slot, raises instead of writing.)
C9_RecordingEvents ==
    [][(pc = "loop" /\ j < steps /\ record_time >= 1 /\ w_h'.upd = w_h.upd + 1)
        => /\ (c' = c + 1 \/ (pc' = "failed" /\ err' \in {"IndexError", "RuntimeError"}))
                <=> (j + 1) % record_time = 0
           /\ c' = c \/ c' = c + 1
           /\ c' = c => Buffers' = Buffers
           /\ c' = c + 1
                => /\ j' = j + 1
                   /\ sol'[c + 1] = irfft2(w_h') /\ sol'[c + 1].upd = j + 1
                   /\ sol_t'[c + 1] = (j + 1) * delta_t
                   /\ sol_vel_x'[c + 1] = q' /\ sol_vel_x'[c + 1].upd = j
                   /\ sol_vel_y'[c + 1] = v' /\ sol_vel_y'[c + 1].upd = j
                   /\ \A i \in DOMAIN sol \ {c + 1} :
                        /\ sol'[i] = sol[i] /\ sol_t'[i] = sol_t[i]
                        /\ sol_vel_x'[i] = sol_vel_x[i] /\ sol_vel_y'[i] = sol_vel_y[i]
                   /\ c >= 1 => sol_t'[c] < sol_t'[c + 1]
      ]_vars

\* a completed run that recorded at steps 2 and 4 and not at steps 1 and 3
C9_Witness ==
    /\ pc = "done" /\ record_time = 2 /\ c = 2
    /\ sol[1].upd = 2 /\ sol_vel_x[1].upd = 1 /\ sol_vel_y[1].upd = 1
    /\ sol[2].upd = 4 /\ sol_vel_x[2].upd = 3 /\ sol_vel_y[2].upd = 3
    /\ sol_t[1] = 2 * delta_t /\ sol_t[2] = 4 * delta_t

\* the grid size of the component that built the vector
GridSize == IF pc # "idle" THEN N ELSE size

VectorBuilt == Started \/ (gpc \in {"constructed", "failed"} /\ dim \in {1, 2, 3})

\* C10 as stated: for every positive grid size the wavenumber vector has exactly
\* N bins, bin i < k_max holding i and bin i >= k_max holding i - N.
C10_NBins ==
    VectorBuilt
        => /\ Len(wavenumbers) = GridSize
           /\ \A i \in 0..(GridSize - 1) :
                i + 1 \in DOMAIN wavenumbers
                /\ wavenumbers[i + 1] = IF i < FloorHalf(GridSize) THEN i ELSE i - GridSize

\* C10 as amended: the wavenumber vector has 2*k_max bins, k_max = floor(N/2),
\* bin i < k_max holding i and bin i >= k_max holding i - 2*k_max; that is N bins
\* and i - N when N is even, and N - 1 bins when N is odd.  In the integrator,
\* once set up, k_x varies along rows and k_y along columns.
C10_TwoKMaxBins ==
    VectorBuilt
        => LET k_max == FloorHalf(GridSize)
           IN /\ Len(wavenumbers) = 2 * k_max
              /\ \A i \in 0..(2 * k_max - 1) :
                    wavenumbers[i + 1] = IF i < k_max THEN i ELSE i - 2 * k_max
              /\ GridSize % 2 = 0
                    => /\ Len(wavenumbers) = GridSize
                       /\ \A i \in k_max..(GridSize - 1) : wavenumbers[i + 1] = i - GridSize
              /\ GridSize % 2 = 1 => Len(wavenumbers) = GridSize - 1
              /\ pc \in {"loop", "done"}
                    => /\ DOMAIN k_x.a = Modes(N) /\ DOMAIN k_y.a = Modes(N)
                       /\ \A b \in Modes(N) :
                            k_x.a[b] = wavenumbers[b[1] + 1] /\ k_y.a[b] = wavenumbers[b[2] + 1]

\* an odd grid size, whose vector has N - 1 bins, in each component
C10_Witness ==
    /\ VectorBuilt /\ GridSize = 3
    /\ wavenumbers = <<0, -1>>

\* an integrator set up on a grid of size 4
C10_WitnessGrid ==
    /\ pc = "loop" /\ N = 4 /\ wavenumbers = <<0, 1, -2, -1>>
    /\ k_x.a[<<3, 1>>] = -1 /\ k_y.a[<<3, 1>>] = 1

====
